---- MODULE Spec2Model ----
(***************************************************************************)
(* A model of library/suma.py, the Ansible module that drives the AIX      *)
(* Service Update Management Assistant (suma).                             *)
(*                                                                         *)
(* Strings of the program are modelled as sequences of one-character       *)
(* strings, so that the regular expressions, strip(), upper(), split()     *)
(* and the string comparison of the code are computed and not assumed.     *)
(* A run of main() is a state machine whose steps are the external         *)
(* commands (module.run_command): each action is one command together      *)
(* with the code that follows it up to the next command.                   *)
(***************************************************************************)
EXTENDS Integers, Sequences, FiniteSets, TLC

(***************************************************************************)
(* Characters and strings                                                  *)
(***************************************************************************)
NL == "\n"

Digits == {"0", "1", "2", "3", "4", "5", "6", "7", "8", "9"}

\* str.strip() / str.rstrip() without argument remove these.
Whitespace == {" ", NL, "\t"}

\* The code points of the characters the model uses (string comparison).
Ord(c) ==
    CASE c = "\t" -> 9
      [] c = NL -> 10
      [] c = " " -> 32
      [] c = "*" -> 42
      [] c = "-" -> 45
      [] c \in Digits -> 48 + (CHOOSE n \in 0..9 :
                                 c = <<"0", "1", "2", "3", "4", "5", "6", "7", "8", "9">>[n + 1])
      [] c = "A" -> 65
      [] c = "E" -> 69
      [] c = "L" -> 76
      [] c = "S" -> 83
      [] c = "T" -> 84
      [] c = "a" -> 97
      [] c = "e" -> 101
      [] c = "l" -> 108
      [] c = "s" -> 115
      [] c = "t" -> 116
      [] c = "x" -> 120
      [] OTHER -> 127

\* str.upper() on one character.
UpperChar(c) ==
    CASE c = "a" -> "A"
      [] c = "e" -> "E"
      [] c = "l" -> "L"
      [] c = "s" -> "S"
      [] c = "t" -> "T"
      [] c = "x" -> "X"
      [] OTHER -> c

Upper(s) == [i \in 1..Len(s) |-> UpperChar(s[i])]

RECURSIVE LStrip(_)
LStrip(s) == IF s # <<>> /\ Head(s) \in Whitespace THEN LStrip(Tail(s)) ELSE s

RECURSIVE RStrip(_)
RStrip(s) ==
    IF s # <<>> /\ s[Len(s)] \in Whitespace THEN RStrip(SubSeq(s, 1, Len(s) - 1)) ELSE s

Strip(s) == LStrip(RStrip(s))

\* s[:n]
Prefix(s, n) == SubSeq(s, 1, IF Len(s) < n THEN Len(s) ELSE n)

\* The string comparison a > b of Python: by code point at the first
\* difference, a proper extension being the greater.
StrGreater(a, b) ==
    LET m == IF Len(a) < Len(b) THEN Len(a) ELSE Len(b)
        diff == {i \in 1..m : a[i] # b[i]}
    IN  IF diff = {}
        THEN Len(a) > Len(b)
        ELSE LET k == CHOOSE i \in diff : \A j \in diff : i <= j
             IN  Ord(a[k]) > Ord(b[k])

(***************************************************************************)
(* Regular expressions.  A pattern is a sequence of atoms: "#" is the      *)
(* class [0-9], any other atom is that literal character.  Every regular   *)
(* expression of the program is an anchored alternation ^(p1|p2|...)$ of   *)
(* such patterns, used with re.match.                                      *)
(***************************************************************************)
AtomMatches(atom, c) == IF atom = "#" THEN c \in Digits ELSE c = atom

\* re.match(r"^p$", s): Python's $ matches at the end of the string and
\* also just before a newline that ends the string.
DollarMatch(p, s) ==
    /\ Len(s) >= Len(p)
    /\ \A i \in 1..Len(p) : AtomMatches(p[i], s[i])
    /\ \/ Len(s) = Len(p)
       \/ Len(s) = Len(p) + 1 /\ s[Len(s)] = NL

ReMatch(alternatives, s) == \E p \in alternatives : DollarMatch(p, s)

D2 == <<"#", "#">>
D4 == <<"#", "#", "#", "#">>
Dash == <<"-">>
Z2 == <<"0", "0">>
Z4 == <<"0", "0", "0", "0">>

\* [0-9]{4}-[0-9]{2}
PatTL == D4 \o Dash \o D2
\* [0-9]{4}-[0-9]{2}-[0-9]{2}
PatSP == PatTL \o Dash \o D2
\* [0-9]{4}-[0-9]{2}-[0-9]{2}-[0-9]{4}
PatSPBuild == PatSP \o Dash \o D4

\* ^([0-9]{4}-[0-9]{2})$
ReTLOnly == {PatTL}
\* ^([0-9]{4}-[0-9]{2})(|-00|-00-0000)$
ReTL == {PatTL, PatTL \o Dash \o Z2, PatTL \o Dash \o Z2 \o Dash \o Z4}
\* ^([0-9]{4}-[0-9]{2}-[0-9]{2})(|-[0-9]{4})$
ReSP == {PatSP, PatSPBuild}
\* ^[0-9]{4}-[0-9]{2}-[0-9]{2}-[0-9]{4}$
ReSPFull == {PatSPBuild}
\* ^[0-9]{4}-[0-9]{2}-[0-9]{2}(|-[0-9]{2}|-[0-9]{4})$
ReOslevelOutput == {PatSP, PatSP \o Dash \o D2, PatSPBuild}
\* ^[0-9]{4}(|-00|-00-00|-00-00-0000)$
ReZeroLevel == {D4, D4 \o Dash \o Z2, D4 \o Dash \o Z2 \o Dash \o Z2,
                D4 \o Dash \o Z2 \o Dash \o Z2 \o Dash \o Z4}
\* ^[0-9]{4}-[0-9]{2}(|-[0-9]{2}|-[0-9]{2}-[0-9]{4})$
ReOslevelShape == {PatTL, PatSP, PatSPBuild}

StrLatest == <<"L", "a", "t", "e", "s", "t">>
StrLATEST == <<"L", "A", "T", "E", "S", "T">>

(***************************************************************************)
(* compute_rq_type                                                         *)
(***************************************************************************)
\* The mutant of compute_rq_type: the SP pattern has lost its optional
\* group, a short SP (YYYY-TT-SS) is not recognized.
compute_rq_type_NoShortSP(oslevel, last_sp) ==
    IF Strip(oslevel) = <<>> \/ oslevel = StrLatest THEN "Latest"
    ELSE IF ReMatch(ReTLOnly, oslevel) /\ last_sp THEN "SP"
    ELSE IF ReMatch(ReTL, oslevel) THEN "TL"
    ELSE IF ReMatch(ReSPFull, oslevel) THEN "SP"
    ELSE "ERROR"

compute_rq_type(oslevel, last_sp) ==
    IF Strip(oslevel) = <<>> \/ oslevel = StrLatest THEN "Latest"
    ELSE IF ReMatch(ReTLOnly, oslevel) /\ last_sp THEN "SP"
    ELSE IF ReMatch(ReTL, oslevel) THEN "TL"
    ELSE IF ReMatch(ReSP, oslevel) THEN "SP"
    ELSE "ERROR"

\* The messages compute_rq_type appends to results['meta']['messages'].
Msg(text, args) == [text |-> text, args |-> args]

MsgLastSpIgnored == Msg("Parameter last_sp is ignored when oslevel is a TL", <<>>)

compute_rq_type_messages(oslevel, last_sp) ==
    IF /\ compute_rq_type(oslevel, last_sp) = "TL"
       /\ last_sp
    THEN <<MsgLastSpIgnored>>
    ELSE <<>>

(***************************************************************************)
(* Parsing of the suma output (Preview and Download)                       *)
(***************************************************************************)
\* A line of the output is either a summary line "   <n> <word>", kept as
\* the pair of its count and its word, or another line (word "other").
SummaryWords == {"downloaded", "failed", "skipped"}

\* The loop over stdout.splitlines(): the value of the counter `word`
\* after the loop, 0 unless a line matches, the last matching line winning.
RECURSIVE ParseCount(_, _)
ParseCount(stdout, word) ==
    IF stdout = <<>> THEN 0
    ELSE LET last == stdout[Len(stdout)]
         IN  IF last.word = word
             THEN last.n
             ELSE ParseCount(SubSeq(stdout, 1, Len(stdout) - 1), word)

(***************************************************************************)
(* The metadata files and find_sp_version                                  *)
(***************************************************************************)
\* Python's None, and the operand error of None > str under Python 3.
None == <<"None">>
TypeError == <<"TypeError">>

\* A metadata file is a sequence of lines; a line is kept as the text
\* between <SP name=" and "> (any line that is no well formed SP tag is a
\* text the tag pattern rejects).
\* ^<SP name=\"([0-9]{4}-[0-9]{2}-[0-9]{2}-[0-9]{4})\">$ on line.rstrip()
IsSPTagLine(line) ==
    /\ Len(line) = Len(PatSPBuild)
    /\ \A i \in 1..Len(line) : AtomMatches(PatSPBuild[i], line[i])

\* The loop stops (break) at the first line that matches.
RECURSIVE find_sp_version(_)
find_sp_version(file) ==
    IF file = <<>> THEN None
    ELSE IF IsSPTagLine(Head(file)) THEN Head(file)
    ELSE find_sp_version(Tail(file))

\* The loop over glob.glob(...) of compute_rq_name, sp_version being the
\* value before the files are scanned.  `version > sp_version` with
\* version None and sp_version a string is False under Python 2 and
\* raises TypeError under Python 3.
RECURSIVE GlobScan(_, _, _)
GlobScan(files, sp_version, py) ==
    IF files = <<>> THEN sp_version
    ELSE LET version == find_sp_version(Head(files))
         IN  IF sp_version = None
             THEN GlobScan(Tail(files), version, py)
             ELSE IF version = None
             THEN IF py = 3 THEN TypeError
                  ELSE GlobScan(Tail(files), sp_version, py)
             ELSE IF StrGreater(version, sp_version)
             THEN GlobScan(Tail(files), version, py)
             ELSE GlobScan(Tail(files), sp_version, py)

(***************************************************************************)
(* check_time and the schedule of suma_edit                                *)
(***************************************************************************)
\* str.isdigit()
IsDigitStr(val) == val # <<>> /\ \A i \in 1..Len(val) : val[i] \in Digits

\* int(val) of a string of digits
RECURSIVE ToInt(_)
ToInt(val) ==
    IF val = <<>> THEN 0
    ELSE 10 * ToInt(SubSeq(val, 1, Len(val) - 1)) + (Ord(val[Len(val)]) - 48)

check_time(val, mini, maxi) ==
    \/ val = <<"*">>
    \/ IsDigitStr(val) /\ mini <= ToInt(val) /\ maxi >= ToInt(val)

\* str.split(' '): the fields between single spaces, empty fields kept.
RECURSIVE SplitSpace(_)
SplitSpace(s) ==
    IF \A i \in 1..Len(s) : s[i] # " " THEN <<s>>
    ELSE LET k == CHOOSE i \in 1..Len(s) : s[i] = " " /\ \A j \in 1..(i - 1) : s[j] # " "
         IN  <<SubSeq(s, 1, k - 1)>> \o SplitSpace(SubSeq(s, k + 1, Len(s)))

(***************************************************************************)
(* The state of a run of main()                                            *)
(***************************************************************************)
VARIABLES
    suma_params,      \* the module parameters and RqType, RqName
    results,          \* changed, msg, stdout, meta.messages
    pc,               \* the position of the run
    cmds,             \* the calls of module.run_command so far, with their exit status
    metadata_dir,     \* whether suma_params['metadata_dir'] exists
    metadata_files,   \* the *.xml files under <metadata_dir>/installp/ppc
    rq_oslevel,       \* the local rq_oslevel of compute_rq_name
    counts            \* the locals downloaded, failed, skipped and msg of suma_download

vars == <<suma_params, results, pc, cmds, metadata_dir, metadata_files, rq_oslevel, counts>>

Actions == {"download", "preview", "list", "edit", "unschedule", "delete", "config", "default"}

\* Exit statuses of an external command: success and one failure.
ExitCodes == {0, 1}

MsgSuccess == "Suma action completed successfully"

\* results = dict(changed=False, msg='', stdout='', stderr='', meta={'messages': []})
InitResults == [changed |-> FALSE, msg |-> "", stdout |-> "", messages |-> <<>>]

InitCounts == [downloaded |-> 0, failed |-> 0, skipped |-> 0, msg |-> Msg("", <<>>)]

\* No metadata file; named is the index in files of <rq_oslevel>.xml, 0 when
\* there is no file of that name.
NoFiles == [files |-> <<>>, named |-> 0]

(***************************************************************************)
(* Bounds of the inputs                                                    *)
(***************************************************************************)
\* Dash separated groups of a generated oslevel.
MaxGroups == 4
\* Lines of a suma Preview or Download output.
MaxLines == 2
\* The largest count of a summary line.
MaxCount == 1
\* Size of the metadata a fetch delivers: its files plus their lines.
MaxMetadataSize == 4
\* Space separated fields of a generated sched_time.
MaxFields == 5

Y7200 == <<"7", "2", "0", "0">>
G03 == <<"0", "3">>
G02 == <<"0", "2">>
B1234 == <<"1", "2", "3", "4">>

\* The strings of at most n groups of digits joined by dashes.
RECURSIVE Grouped(_)
Grouped(n) ==
    IF n = 0 THEN {}
    ELSE IF n = 1 THEN {Y7200, <<"7", "2", "0">>}
    ELSE Grouped(n - 1) \cup
         {g \o Dash \o t : g \in Grouped(n - 1), t \in {Z2, G03, Z4, B1234}}

\* The spellings of Latest and the blank strings.
LatestLike == {<<>>, <<" ">>, <<" ", NL>>, StrLatest, StrLATEST,
               <<"l", "a", "t", "e", "s", "t">>, <<"L", "a", "T", "e", "s", "t">>,
               StrLatest \o <<NL>>, <<" ">> \o StrLatest, <<"l", "a", "t", "e">>}

\* The oslevel values of the wide specifications: any grouped string,
\* alone or followed by a newline, a space or a letter.
WideOsLevels ==
    LatestLike \cup
    {g \o t : g \in Grouped(MaxGroups), t \in {<<>>, <<NL>>, <<" ">>, <<"x">>}}

\* The oslevel values of the full runs: one of each kind.
RunOsLevels ==
    {StrLatest, <<>>, <<"l", "a", "t", "e", "s", "t">>,
     Y7200 \o Dash \o G03,
     Y7200 \o Dash \o G03 \o Dash \o Z2,
     Y7200 \o Dash \o G03 \o Dash \o G02,
     Y7200 \o Dash \o G03 \o Dash \o G02 \o Dash \o B1234,
     Y7200 \o Dash \o Z2,
     Y7200 \o Dash \o G03 \o Dash \o G02 \o <<NL>>,
     Y7200 \o Dash \o G03 \o Dash \o G02 \o Dash \o B1234 \o <<NL>>,
     Y7200 \o Dash \o G03 \o <<"x">>}

DownloadDirs == {"", "/usr/sys/inst.images"}

\* The outputs of /bin/oslevel -s.
OslevelOutputs ==
    {Y7200 \o Dash \o G03 \o Dash \o G02 \o Dash \o B1234 \o <<NL>>,
     Y7200 \o Dash \o G03 \o Dash \o G02,
     Y7200 \o Dash \o G03 \o Dash \o G02 \o Dash \o <<"1", "2">>,
     Y7200 \o Dash \o G03,
     <<>>}

\* The outputs of suma: at most MaxLines lines.
StdoutLines ==
    [n : 0..MaxCount, word : SummaryWords] \cup {[n |-> 0, word |-> "other"]}

RECURSIVE SeqsUpTo(_, _)
SeqsUpTo(S, n) ==
    IF n = 0 THEN {<<>>}
    ELSE SeqsUpTo(S, n - 1) \cup
         {Append(q, x) : q \in {r \in SeqsUpTo(S, n - 1) : Len(r) = n - 1}, x \in S}

Stdouts == SeqsUpTo(StdoutLines, MaxLines)

\* The lines of the metadata files: two SP tags of different versions and
\* a line the tag pattern rejects.
SP1111 == Y7200 \o Dash \o G03 \o Dash \o G02 \o Dash \o <<"1", "1", "1", "1">>
SP2222 == Y7200 \o Dash \o G03 \o Dash \o G02 \o Dash \o <<"2", "2", "2", "2">>
MetadataLines == {SP1111, SP2222, Y7200 \o Dash \o G03 \o Dash \o G02}

\* The lists of files of size at most n, a file counting for one plus the
\* number of its lines; the order of a list is the order glob returns.
RECURSIVE FileLists(_)
FileLists(n) ==
    IF n <= 0 THEN {<<>>}
    ELSE {<<>>} \cup
         UNION {{<<f>> \o rest : rest \in FileLists(n - 1 - Len(f))} :
                f \in SeqsUpTo(MetadataLines, n - 1)}

\* The metadata a fetch may deliver.
MetadataFileLists == FileLists(MaxMetadataSize)

\* The sched_time values: at most MaxFields fields joined by single spaces.
SchedFields == {<<"*">>, <<"0">>, <<"7">>, <<"1", "3">>, <<"6", "0">>, <<"x">>, <<>>}

RECURSIVE Joined(_)
Joined(n) ==
    IF n = 0 THEN {}
    ELSE IF n = 1 THEN SchedFields
    ELSE Joined(n - 1) \cup
         {j \o <<" ">> \o f : j \in Joined(n - 1), f \in SchedFields}

WideSchedTimes == {None} \cup Joined(MaxFields)

RunSchedTimes ==
    {None, <<>>, <<" ">>,
     <<"6", "0", " ", "7", " ", "*", " ", "*", " ", "7">>,
     <<"0", " ", "7", " ", "*", " ", "*", " ", "0">>,
     <<"0", " ", "7", " ", "*", " ", "*">>}

(***************************************************************************)
(* The ends of a run                                                       *)
(***************************************************************************)
\* results['msg'] = msg; module.fail_json(**results)
FailJson(res, msg) ==
    /\ results' = [res EXCEPT !.msg = msg]
    /\ pc' = "failed"

\* The end of main(): results['msg'] = 'Suma {} completed successfully';
\* module.exit_json(**results)
ExitJson(res) ==
    /\ results' = [res EXCEPT !.msg = MsgSuccess]
    /\ pc' = "done"

\* An exception nothing catches: the run ends with a traceback, without
\* fail_json and without exit_json.
Crash ==
    /\ pc' = "crashed"
    /\ UNCHANGED results

\* module.run_command(cmd) returning rc
RunCommand(cmd, rc) == cmds' = Append(cmds, [cmd |-> cmd, rc |-> rc])

AppendMsgs(res, msgs) == [res EXCEPT !.messages = @ \o msgs]

(***************************************************************************)
(* suma_download: the check of oslevel, the request type and name          *)
(***************************************************************************)
MsgBadZero == "Bad parameter: oslevel, specify a non 0 value for the Technical Level or the Service Pack"
MsgBadFormat == "Bad parameter: oslevel should repect the format: xxxx-xx or xxxx-xx-xx or xxxx-xx-xx-xxxx"

\* "Check oslevel format": the fatal message ("" when there is none) and
\* the value of suma_params['oslevel'] after the check.
ValidateOslevel(oslevel) ==
    IF Strip(oslevel) = <<>> \/ Upper(oslevel) = StrLATEST
    THEN [fatal |-> "", oslevel |-> StrLatest]
    ELSE IF ReMatch(ReZeroLevel, oslevel)
    THEN [fatal |-> MsgBadZero, oslevel |-> oslevel]
    ELSE IF ~ReMatch(ReOslevelShape, oslevel)
    THEN [fatal |-> MsgBadFormat, oslevel |-> oslevel]
    ELSE [fatal |-> "", oslevel |-> oslevel]

\* The mutant of RqNameIsDirect: the test of the full SP form is left out.
RqNameIsDirect_TLOnly(rq_type, oslevel) == rq_type = "TL"

\* compute_rq_name: the request name is computed from oslevel alone, with
\* no command and no metadata.
RqNameIsDirect(rq_type, oslevel) ==
    \/ rq_type = "TL"
    \/ rq_type = "SP" /\ ReMatch(ReSPFull, oslevel)

\* The request name of these cases: group(1) of the TL pattern, or oslevel.
DirectRqName(rq_type, oslevel) ==
    IF rq_type = "TL" THEN Prefix(oslevel, 7) ELSE oslevel

\* The end of compute_rq_name and what suma_download does with the name up
\* to the Preview: the check of the name, RqName, the check of download_dir.
AfterRqName(sp, res, rq_name) ==
    IF rq_name = <<>> \/ Strip(rq_name) = <<>>
    THEN /\ FailJson(res, "OS level does not match any fixes")
         /\ suma_params' = sp
    ELSE IF sp.download_dir = ""
    THEN /\ FailJson(res, "Bad parameter: download_dir")
         /\ suma_params' = [sp EXCEPT !.RqName = rq_name]
    ELSE /\ suma_params' = [sp EXCEPT !.RqName = rq_name]
         /\ results' = res
         /\ pc' = "preview_cmd"

\* compute_rq_name from the filter to the metadata directory: the next
\* step is the suma Metadata command.
ToMetadata(sp, res, level) ==
    /\ suma_params' = sp
    /\ rq_oslevel' = level
    /\ IF Prefix(level, 7) = <<>>
       THEN /\ FailJson(res, "Cannot build minimum level filter")
            /\ UNCHANGED metadata_dir
       ELSE /\ metadata_dir' = TRUE
            /\ results' = res
            /\ pc' = "metadata_cmd"

\* suma_download from its start to the first command it runs.
SumaDownloadStart ==
    /\ pc = "main"
    /\ suma_params.action \in {"download", "preview"}
    /\ LET v == ValidateOslevel(suma_params.oslevel)
           oslevel == v.oslevel
           rq_type == compute_rq_type(oslevel, suma_params.last_sp)
           res == AppendMsgs(results, compute_rq_type_messages(oslevel, suma_params.last_sp))
           sp == [suma_params EXCEPT !.oslevel = oslevel, !.RqType = rq_type]
       IN  IF v.fatal # ""
           THEN /\ FailJson(results, v.fatal)
                /\ UNCHANGED <<suma_params, metadata_dir, rq_oslevel>>
           ELSE IF rq_type = "ERROR"
           THEN /\ FailJson(res, "Bad parameter: oslevel, parsing error")
                /\ suma_params' = [suma_params EXCEPT !.oslevel = oslevel]
                /\ UNCHANGED <<metadata_dir, rq_oslevel>>
           ELSE IF RqNameIsDirect(rq_type, oslevel)
           THEN /\ AfterRqName(sp, res, DirectRqName(rq_type, oslevel))
                /\ UNCHANGED <<metadata_dir, rq_oslevel>>
           ELSE IF oslevel = StrLatest
           THEN /\ suma_params' = sp
                /\ results' = res
                /\ pc' = "oslevel_cmd"
                /\ UNCHANGED <<metadata_dir, rq_oslevel>>
           ELSE ToMetadata(sp, res, oslevel)
    /\ UNCHANGED <<cmds, metadata_files, counts>>

(***************************************************************************)
(* compute_rq_name: the metadata path                                      *)
(***************************************************************************)
\* /bin/oslevel -s, when oslevel is Latest.
OslevelCmd ==
    /\ pc = "oslevel_cmd"
    /\ \E rc \in ExitCodes, stdout \in OslevelOutputs :
          /\ RunCommand("oslevel -s", rc)
          /\ IF rc # 0
             THEN /\ FailJson([results EXCEPT !.stdout = "oslevel -s"],
                              "Suma oslevel command failed")
                  /\ UNCHANGED <<suma_params, metadata_dir, rq_oslevel>>
             ELSE IF ~ReMatch(ReOslevelOutput, Strip(stdout))
             THEN /\ FailJson([results EXCEPT !.stdout = "oslevel -s"],
                              "Suma oslevel command returned an unexpected OS level")
                  /\ UNCHANGED <<suma_params, metadata_dir, rq_oslevel>>
             ELSE ToMetadata(suma_params, results, Prefix(Strip(stdout), 7))
    /\ UNCHANGED <<metadata_files, counts>>

\* The file <rq_oslevel>.xml is looked for when rq_oslevel has 10 characters.
SingleFile == Len(rq_oslevel) = 10

\* The mutant of MetadataCmd: the exit status of the command is not
\* tested, the files are scanned whatever it is.
MetadataCmd_IgnoresRc ==
    /\ pc = "metadata_cmd"
    /\ \E rc \in ExitCodes :
          /\ RunCommand("suma Metadata", rc)
          /\ \E fl \in MetadataFileLists :
                \E k \in (IF SingleFile THEN 0..Len(fl) ELSE {0}) :
                   metadata_files' = [files |-> fl, named |-> k]
          /\ results' = results
          /\ pc' = "scan"
    /\ UNCHANGED <<suma_params, metadata_dir, rq_oslevel, counts>>

\* suma -x -a Action=Metadata: the command delivers the metadata files.
MetadataCmd ==
    /\ pc = "metadata_cmd"
    /\ \E rc \in ExitCodes :
          /\ RunCommand("suma Metadata", rc)
          /\ IF rc # 0
             THEN /\ FailJson([results EXCEPT !.stdout = "suma Metadata"],
                              "Suma metadata command failed")
                  /\ UNCHANGED metadata_files
             ELSE /\ \E fl \in MetadataFileLists :
                        \E k \in (IF SingleFile THEN 0..Len(fl) ELSE {0}) :
                           metadata_files' = [files |-> fl, named |-> k]
                  /\ results' = results
                  /\ pc' = "scan"
    /\ UNCHANGED <<suma_params, metadata_dir, rq_oslevel, counts>>

MsgMetadata == Msg("Suma metadata: RqName is the latest SP of oslevel", <<>>)

\* The SP version the scan of the metadata files finds under Python py:
\* a version, None, or TypeError; IOError when the named file is missing.
ScanResult(py) ==
    IF SingleFile
    THEN IF metadata_files.named = 0
         THEN <<"IOError">>
         ELSE find_sp_version(metadata_files.files[metadata_files.named])
    ELSE GlobScan(metadata_files.files, None, py)

\* compute_rq_name from the scan of the metadata files to its end.
ScanMetadata ==
    /\ pc = "scan"
    /\ \E py \in {2, 3} :
          LET sp_version == ScanResult(py)
          IN  IF sp_version \in {<<"IOError">>, TypeError}
              THEN /\ Crash
                   /\ UNCHANGED <<suma_params, metadata_dir, metadata_files>>
              ELSE IF sp_version = None \/ Strip(sp_version) = <<>>
              THEN \* the message names `files`, which is unbound when the
                   \* single file was read: UnboundLocalError
                   /\ IF SingleFile
                      THEN Crash
                      ELSE FailJson(results, "Cannot determine SP version")
                   /\ UNCHANGED <<suma_params, metadata_dir, metadata_files>>
              ELSE \* shutil.rmtree(suma_params['metadata_dir'])
                   /\ metadata_dir' = FALSE
                   /\ metadata_files' = NoFiles
                   /\ AfterRqName(suma_params, AppendMsgs(results, <<MsgMetadata>>),
                                  sp_version)
    /\ UNCHANGED <<cmds, rq_oslevel, counts>>

(***************************************************************************)
(* suma_download: Preview, Download, install                               *)
(***************************************************************************)
MsgCommand(action) ==
    Msg(IF action = "Preview" THEN "SUMA - Command: Action=Preview"
        ELSE "SUMA - Command: Action=Download", <<>>)

\* messages.extend(stdout.rstrip().splitlines()): the lines of an output
\* are kept as one message.
MsgStdout(action) ==
    Msg(IF action = "Preview" THEN "output of suma Preview"
        ELSE "output of suma Download", <<>>)

MsgPreviewSummary(d, f, s) == Msg("Preview summary", <<d, f, s>>)
MsgDownloadSummary(d, f, s) == Msg("Download summary", <<d, f, s>>)

\* suma_command(action) up to the test of rc: results after the command.
SumaCommandResults(action) ==
    [AppendMsgs(results, <<MsgCommand(action)>>)
        EXCEPT !.stdout = IF action = "Preview" THEN "suma Preview" ELSE "suma Download"]

\* "Install updates": whether install_all_updates is run.
InstallWanted == ~suma_params.download_only

\* suma_download after a Preview that exited 0, up to the next command:
\* "If action is preview or nothing is available to download, we are done".
AfterPreview(res, d, f, s) ==
    LET msg == MsgPreviewSummary(d, f, s)
        res1 == IF suma_params.action = "preview" THEN AppendMsgs(res, <<msg>>) ELSE res
        res2 == AppendMsgs(res1, <<MsgStdout("Preview"), msg>>)
    IN  /\ counts' = [downloaded |-> d, failed |-> f, skipped |-> s, msg |-> msg]
        /\ IF d = 0 /\ s = 0
           THEN ExitJson(res1)
           ELSE IF d # 0
           THEN results' = res2 /\ pc' = "download_cmd"
           ELSE IF InstallWanted
           THEN results' = res2 /\ pc' = "install_cmd"
           ELSE ExitJson(res2)

\* suma_command('Preview') and the parsing of its output.
PreviewCmd ==
    /\ pc = "preview_cmd"
    /\ \E rc \in ExitCodes, stdout \in Stdouts :
          /\ RunCommand("suma Preview", rc)
          /\ IF rc # 0
             THEN /\ FailJson(SumaCommandResults("Preview"), "Suma Preview command failed")
                  /\ UNCHANGED counts
             ELSE AfterPreview(SumaCommandResults("Preview"),
                               ParseCount(stdout, "downloaded"),
                               ParseCount(stdout, "failed"),
                               ParseCount(stdout, "skipped"))
    /\ UNCHANGED <<suma_params, metadata_dir, metadata_files, rq_oslevel>>

\* The mutant of AfterDownload: a Download that got nothing goes on.
AfterDownload_NoStop(res, d, f, s) ==
    LET msg == MsgDownloadSummary(d, f, s)
        res1 == AppendMsgs(res, <<MsgStdout("Download"), msg>>)
        res2 == IF d # 0 THEN [res1 EXCEPT !.changed = TRUE] ELSE res1
    IN  /\ counts' = [downloaded |-> d, failed |-> f, skipped |-> s, msg |-> msg]
        /\ IF InstallWanted
           THEN results' = res2 /\ pc' = "install_cmd"
           ELSE ExitJson(res2)

\* suma_download after a Download that exited 0, up to the next command.
AfterDownload(res, d, f, s) ==
    LET msg == MsgDownloadSummary(d, f, s)
        res1 == AppendMsgs(res, <<MsgStdout("Download"), msg>>)
        res2 == IF d # 0 THEN [res1 EXCEPT !.changed = TRUE] ELSE res1
    IN  /\ counts' = [downloaded |-> d, failed |-> f, skipped |-> s, msg |-> msg]
        /\ IF d = 0 /\ s = 0
           THEN \* "All expected download have failed"
                ExitJson(AppendMsgs(res, <<msg>>))
           ELSE IF InstallWanted
           THEN results' = res2 /\ pc' = "install_cmd"
           ELSE ExitJson(res2)

\* suma_command('Download') and the parsing of its output.
DownloadCmd ==
    /\ pc = "download_cmd"
    /\ \E rc \in ExitCodes, stdout \in Stdouts :
          /\ RunCommand("suma Download", rc)
          /\ IF rc # 0
             THEN /\ FailJson(SumaCommandResults("Download"), "Suma Download command failed")
                  /\ UNCHANGED counts
             ELSE AfterDownload(SumaCommandResults("Download"),
                                ParseCount(stdout, "downloaded"),
                                ParseCount(stdout, "failed"),
                                ParseCount(stdout, "skipped"))
    /\ UNCHANGED <<suma_params, metadata_dir, metadata_files, rq_oslevel>>

\* The mutant of InstallCmd: the exit status of the command is not tested.
InstallCmd_IgnoresRc ==
    /\ pc = "install_cmd"
    /\ \E rc \in ExitCodes :
          /\ RunCommand("install_all_updates", rc)
          /\ ExitJson([AppendMsgs(results, <<counts.msg>>)
                          EXCEPT !.stdout = "install_all_updates", !.changed = TRUE])
    /\ UNCHANGED <<suma_params, metadata_dir, metadata_files, rq_oslevel, counts>>

\* /usr/sbin/install_all_updates -Yd <DLTarget>
InstallCmd ==
    /\ pc = "install_cmd"
    /\ \E rc \in ExitCodes :
          LET res == [AppendMsgs(results, <<counts.msg>>)
                         EXCEPT !.stdout = "install_all_updates", !.changed = TRUE]
          IN  /\ RunCommand("install_all_updates", rc)
              /\ IF rc # 0
                 THEN FailJson(res, "Suma install command failed")
                 ELSE ExitJson(res)
    /\ UNCHANGED <<suma_params, metadata_dir, metadata_files, rq_oslevel, counts>>

(***************************************************************************)
(* The other actions                                                       *)
(***************************************************************************)
\* An action that is one suma command: the command is run, a nonzero exit
\* status is fatal.
OneCommand(action, cmd, failure) ==
    /\ pc = "main"
    /\ suma_params.action = action
    /\ \E rc \in ExitCodes :
          /\ RunCommand(cmd, rc)
          /\ IF rc # 0
             THEN FailJson([results EXCEPT !.stdout = cmd], failure)
             ELSE ExitJson([results EXCEPT !.stdout = cmd])
    /\ UNCHANGED <<suma_params, metadata_dir, metadata_files, rq_oslevel, counts>>

SumaList == OneCommand("list", "suma -l", "Suma list command failed")
SumaUnschedule == OneCommand("unschedule", "suma -u", "Suma unschedule command failed")
SumaDelete == OneCommand("delete", "suma -d", "Suma delete command failed")
SumaConfig == OneCommand("config", "suma -c", "Suma config command failed")
SumaDefault == OneCommand("default", "suma -D", "Suma list default command failed")

\* The test of the five fields of a schedule.
ScheduleOk(fields) ==
    /\ check_time(fields[1], 0, 59)
    /\ check_time(fields[2], 0, 23)
    /\ check_time(fields[3], 1, 31)
    /\ check_time(fields[4], 1, 12)
    /\ check_time(fields[5], 0, 6)

\* The flag suma_edit gives suma: "ValueError" when sched_time does not
\* unpack into five fields, "bad" when a field is not accepted.
EditFlag(sched_time) ==
    IF sched_time = None THEN "suma -w"
    ELSE IF Strip(sched_time) = <<>> THEN "suma -u"
    ELSE IF Len(SplitSpace(sched_time)) # 5 THEN "ValueError"
    ELSE IF ScheduleOk(SplitSpace(sched_time)) THEN "suma -s"
    ELSE "bad"

SumaEdit ==
    /\ pc = "main"
    /\ suma_params.action = "edit"
    /\ LET flag == EditFlag(suma_params.sched_time)
       IN  IF flag = "ValueError"
           THEN Crash /\ UNCHANGED cmds
           ELSE IF flag = "bad"
           THEN /\ FailJson(results, "Suma edit command failed Bad schedule time")
                /\ UNCHANGED cmds
           ELSE \E rc \in ExitCodes :
                   /\ RunCommand(flag, rc)
                   /\ IF rc # 0
                      THEN FailJson([results EXCEPT !.stdout = flag],
                                    "Suma edit command failed")
                      ELSE ExitJson([results EXCEPT !.stdout = flag])
    /\ UNCHANGED <<suma_params, metadata_dir, metadata_files, rq_oslevel, counts>>

(***************************************************************************)
(* Specifications                                                          *)
(***************************************************************************)
\* suma_params after main() has read module.params.
Params(action, oslevel, last_sp, download_only, download_dir, sched_time) ==
    [action |-> action, oslevel |-> oslevel, last_sp |-> last_sp,
     download_only |-> download_only, download_dir |-> download_dir,
     sched_time |-> sched_time, RqType |-> "", RqName |-> <<>>]

InitRest ==
    /\ results = InitResults
    /\ cmds = <<>>
    /\ metadata_dir \in BOOLEAN
    /\ metadata_files = NoFiles
    /\ rq_oslevel = <<>>
    /\ counts = InitCounts

\* The runs of main(): every action, the oslevel values of RunOsLevels.
Init ==
    /\ pc = "main"
    /\ \/ \E a \in {"download", "preview"}, o \in RunOsLevels, l \in BOOLEAN,
            d \in BOOLEAN, dir \in DownloadDirs :
            suma_params = Params(a, o, l, d, dir, None)
       \/ \E a \in Actions \ {"download", "preview", "edit"} :
            suma_params = Params(a, StrLatest, FALSE, FALSE, "/usr/sys/inst.images", None)
       \/ \E t \in RunSchedTimes :
            suma_params = Params("edit", StrLatest, FALSE, FALSE, "/usr/sys/inst.images", t)
    /\ InitRest

Next ==
    \/ SumaDownloadStart
    \/ OslevelCmd
    \/ MetadataCmd
    \/ ScanMetadata
    \/ PreviewCmd
    \/ DownloadCmd
    \/ InstallCmd
    \/ SumaList
    \/ SumaEdit
    \/ SumaUnschedule
    \/ SumaDelete
    \/ SumaConfig
    \/ SumaDefault

Spec == Init /\ [][Next]_vars

\* suma_download up to its first command, on the oslevel values of
\* WideOsLevels.
InitStart ==
    /\ pc = "main"
    /\ \E a \in {"download", "preview"}, o \in WideOsLevels, l \in BOOLEAN,
         dir \in DownloadDirs :
         suma_params = Params(a, o, l, FALSE, dir, None)
    /\ InitRest

SpecStart == InitStart /\ [][SumaDownloadStart]_vars

\* A call of compute_rq_type(oslevel, last_sp) on its own: the value it
\* returns is kept in RqType, its messages in results.
CallComputeRqType ==
    /\ pc = "compute_rq_type"
    /\ suma_params' = [suma_params EXCEPT
                          !.RqType = compute_rq_type(suma_params.oslevel, suma_params.last_sp)]
    /\ results' = AppendMsgs(results,
                             compute_rq_type_messages(suma_params.oslevel, suma_params.last_sp))
    /\ pc' = "returned"
    /\ UNCHANGED <<cmds, metadata_dir, metadata_files, rq_oslevel, counts>>

InitRqType ==
    /\ pc = "compute_rq_type"
    /\ \E o \in WideOsLevels, l \in BOOLEAN :
         suma_params = Params("download", o, l, FALSE, "/usr/sys/inst.images", None)
    /\ InitRest

SpecRqType == InitRqType /\ [][CallComputeRqType]_vars

\* suma_edit on the sched_time values of WideSchedTimes.
InitEdit ==
    /\ pc = "main"
    /\ \E t \in WideSchedTimes :
         suma_params = Params("edit", StrLatest, FALSE, FALSE, "/usr/sys/inst.images", t)
    /\ InitRest

SpecEdit == InitEdit /\ [][SumaEdit]_vars

(***************************************************************************)
(* Properties                                                              *)
(***************************************************************************)
Invoked(cmd) == \E i \in 1..Len(cmds) : cmds[i].cmd = cmd

LastCmd == cmds[Len(cmds)]

\* s has exactly the shape of pattern p (no trailing newline).
IsShape(p, s) == Len(s) = Len(p) /\ \A i \in 1..Len(p) : AtomMatches(p[i], s[i])

\* C1: in a run with action = preview, suma is never invoked in Download
\* mode and install_all_updates is never invoked.
C1_PreviewOnly ==
    suma_params.action = "preview" =>
        /\ ~Invoked("suma Download")
        /\ ~Invoked("install_all_updates")

\* C2: install_all_updates is invoked only if download_only is false and
\* the suma Download step was invoked before it in the run.
C2_InstallOnlyAfterDownload ==
    \A i \in 1..Len(cmds) :
        cmds[i].cmd = "install_all_updates" =>
            /\ ~suma_params.download_only
            /\ \E j \in 1..(i - 1) : cmds[j].cmd = "suma Download"

\* The last command was a Download that exited 0 and whose output parsed
\* to downloaded = 0 and skipped = 0.
DownloadGotNothing ==
    /\ cmds # <<>>
    /\ LastCmd = [cmd |-> "suma Download", rc |-> 0]
    /\ counts.msg.text = "Download summary"
    /\ counts.downloaded = 0
    /\ counts.skipped = 0

\* C3: after a Download that exits 0 and reports 0 downloaded and 0
\* skipped the run stops: no install, no fail_json, the download summary
\* is the last message, changed is false, and the run ends through
\* exit_json with the success message.
C3_EmptyDownloadStops ==
    DownloadGotNothing =>
        /\ pc = "done"
        /\ results.msg = MsgSuccess
        /\ ~results.changed
        /\ ~Invoked("install_all_updates")
        /\ results.messages # <<>>
        /\ results.messages[Len(results.messages)] =
               MsgDownloadSummary(0, counts.failed, 0)

C3_Witness ==
    /\ DownloadGotNothing
    /\ pc = "done"
    /\ Invoked("suma Preview")
    /\ counts.failed > 0

\* C4: after a Preview that exited 0, suma is invoked in Download mode if
\* and only if action is download and the preview's downloaded count is
\* > 0; when the preview's downloaded and skipped counts are both zero the
\* run returns right after the preview.
C4_DownloadIff ==
    /\ (Invoked("suma Download") \/ pc = "download_cmd") => suma_params.action = "download"
    /\ (cmds # <<>> /\ LastCmd = [cmd |-> "suma Preview", rc |-> 0]) =>
          /\ pc = "download_cmd" <=>
                (suma_params.action = "download" /\ counts.downloaded > 0)
          /\ (counts.downloaded = 0 /\ counts.skipped = 0) => pc = "done"

\* The request type the five rules give, the patterns being taken as the
\* exact shapes.
RuleType(oslevel, last_sp) ==
    IF Strip(oslevel) = <<>> \/ oslevel = StrLatest THEN "Latest"
    ELSE IF IsShape(PatTL, oslevel) /\ last_sp THEN "SP"
    ELSE IF \E p \in ReTL : IsShape(p, oslevel) THEN "TL"
    ELSE IF \E p \in ReSP : IsShape(p, oslevel) THEN "SP"
    ELSE "ERROR"

\* C5: compute_rq_type returns, for every oslevel and last_sp, the type
\* the five rules give in order, and appends the "last_sp is ignored"
\* message exactly when rule 3 applies with last_sp true.
C5_Rules ==
    pc = "returned" =>
        /\ suma_params.RqType = RuleType(suma_params.oslevel, suma_params.last_sp)
        /\ results.messages =
              (IF suma_params.RqType = "TL" /\ suma_params.last_sp
               THEN <<MsgLastSpIgnored>> ELSE <<>>)

\* C5, for the oslevel values that do not end with a newline.
C5_RulesWithoutNewline ==
    (suma_params.oslevel = <<>> \/ suma_params.oslevel[Len(suma_params.oslevel)] # NL)
        => C5_Rules

\* The request is a TL, or an SP given in the full YYYY-TT-SS-BBBB form.
DirectRequest(sp) ==
    \/ sp.RqType = "TL"
    \/ sp.RqType = "SP" /\ IsShape(PatSPBuild, sp.oslevel)

\* The suffixes a TL may carry after YYYY-TT.
TLSuffixes ==
    {x \o y : x \in {<<>>, Dash \o Z2, Dash \o Z2 \o Dash \o Z4}, y \in {<<>>, <<NL>>}}

\* C6: for a TL, or an SP in the full form, compute_rq_name runs no
\* command and leaves the metadata directory alone; the name is the
\* YYYY-TT prefix of a TL, and the oslevel itself of a full SP.
C6_DirectName ==
    [][(pc = "main" /\ DirectRequest(suma_params')) =>
          /\ cmds' = cmds
          /\ metadata_dir' = metadata_dir
          /\ metadata_files' = metadata_files
          /\ pc' \notin {"oslevel_cmd", "metadata_cmd", "scan"}
          /\ IF suma_params'.RqType = "TL"
             THEN /\ IsShape(PatTL, suma_params'.RqName)
                  /\ \E x \in TLSuffixes :
                        suma_params'.oslevel = suma_params'.RqName \o x
             ELSE suma_params'.RqName = suma_params'.oslevel]_vars

C6_Witness ==
    /\ pc = "preview_cmd"
    /\ cmds = <<>>
    /\ suma_params.RqType = "TL"
    /\ suma_params.oslevel = Y7200 \o Dash \o G03 \o Dash \o Z2 \o Dash \o Z4
    /\ suma_params.RqName = Y7200 \o Dash \o G03

\* The metadata files the scan reads: the named file, or all of them.
Candidates ==
    IF SingleFile
    THEN IF metadata_files.named = 0 THEN <<>>
         ELSE <<metadata_files.files[metadata_files.named]>>
    ELSE metadata_files.files

HasLine(files, line) ==
    \E i \in 1..Len(files) : \E j \in 1..Len(files[i]) : files[i][j] = line

\* C7: when SP tag lines of two versions are among the candidate metadata
\* files, in one file or in two and in any order, and the resolver returns
\* a name, that name is the greater version.
C7_SelectsMaximum ==
    [][(/\ pc = "scan"
        /\ HasLine(Candidates, SP1111)
        /\ HasLine(Candidates, SP2222)
        /\ suma_params'.RqName # <<>>) =>
          suma_params'.RqName = SP2222]_vars

\* C8: once a command has exited with a nonzero status it is the last
\* command of the run, the run is in the fatal state with msg populated,
\* and the success message is not produced.
C8_FailureIsFatal ==
    \A i \in 1..Len(cmds) :
        cmds[i].rc # 0 =>
            /\ i = Len(cmds)
            /\ pc = "failed"
            /\ results.msg \notin {"", MsgSuccess}

C8_Witness ==
    /\ pc = "failed"
    /\ Len(cmds) = 5
    /\ LastCmd = [cmd |-> "install_all_updates", rc |-> 1]

\* C9: suma_edit gives suma -w for an absent sched_time, -u for a blank
\* one, -s for five fields each accepted, and ends every other sched_time
\* as a fatal error reported through msg with no command invoked.
C9_EditOutcome ==
    pc # "main" =>
        LET t == suma_params.sched_time
            wanted == IF t = None THEN "suma -w"
                      ELSE IF Strip(t) = <<>> THEN "suma -u"
                      ELSE IF Len(SplitSpace(t)) = 5 /\ ScheduleOk(SplitSpace(t))
                      THEN "suma -s"
                      ELSE "bad"
        IN  IF wanted = "bad"
            THEN pc = "failed" /\ results.msg # "" /\ cmds = <<>>
            ELSE Len(cmds) = 1 /\ cmds[1].cmd = wanted

\* The oslevel values the Validate step is to accept.
Acceptable(oslevel) ==
    \/ Strip(oslevel) = <<>>
    \/ Upper(oslevel) = StrLATEST
    \/ /\ \E p \in ReOslevelShape : IsShape(p, oslevel)
       /\ ~\E p \in ReZeroLevel : IsShape(p, oslevel)

\* C10: the Validate step accepts exactly the blank values, the spellings
\* of latest (both becoming Latest) and the shapes YYYY-TT, YYYY-TT-SS and
\* YYYY-TT-SS-BBBB; every other value is fatal before any command.
C10_ValidateAccepts ==
    [][pc = "main" =>
          IF Acceptable(suma_params.oslevel)
          THEN /\ results'.msg \notin {MsgBadZero, MsgBadFormat}
               /\ (Strip(suma_params.oslevel) = <<>> \/ Upper(suma_params.oslevel) = StrLATEST)
                     => suma_params'.oslevel = StrLatest /\ suma_params'.RqType = "Latest"
          ELSE /\ pc' = "failed"
               /\ results'.msg \in {MsgBadZero, MsgBadFormat}
               /\ cmds' = <<>>]_vars

\* C10, for the oslevel values that do not end with a newline.
C10_ValidateAcceptsWithoutNewline ==
    [][(pc = "main" /\ (suma_params.oslevel = <<>>
                        \/ suma_params.oslevel[Len(suma_params.oslevel)] # NL)) =>
          IF Acceptable(suma_params.oslevel)
          THEN results'.msg \notin {MsgBadZero, MsgBadFormat}
          ELSE /\ pc' = "failed"
               /\ results'.msg \in {MsgBadZero, MsgBadFormat}
               /\ cmds' = <<>>]_vars

\* The run has ended: through exit_json, through fail_json, or with a
\* traceback.
Ended == pc \in {"done", "failed", "crashed"}

\* The suma Download step exited 0 and reported a downloaded count > 0.
DownloadedSomething ==
    /\ \E i \in 1..Len(cmds) : cmds[i] = [cmd |-> "suma Download", rc |-> 0]
    /\ counts.msg.text = "Download summary"
    /\ counts.downloaded > 0

\* C11: at the end of every run, changed is true only if the Download
\* step reported a downloaded count > 0 or install_all_updates exited
\* with status 0.
C11_ChangedOnlyIfChanged ==
    (Ended /\ results.changed) =>
        \/ DownloadedSomething
        \/ \E i \in 1..Len(cmds) : cmds[i] = [cmd |-> "install_all_updates", rc |-> 0]

\* C11, for the runs in which install_all_updates does not fail.
C11_ChangedWithoutInstallFailure ==
    (\A i \in 1..Len(cmds) : cmds[i] # [cmd |-> "install_all_updates", rc |-> 1])
        => C11_ChangedOnlyIfChanged

\* The format of the request name the request type fixes.
NameFormat(rq_type, rq_name) ==
    IF rq_type = "TL" THEN IsShape(PatTL, rq_name)
    ELSE IF rq_type = "SP" THEN IsShape(PatSPBuild, rq_name)
    ELSE rq_name = <<>>

\* compute_rq_name has returned: the run is past the test of the name,
\* which ends an empty one as a fatal error.
RqNameReturned ==
    \/ pc \in {"preview_cmd", "download_cmd", "install_cmd", "done"}
    \/ pc = "failed" /\ results.msg \notin
          {"", MsgBadZero, MsgBadFormat, "Bad parameter: oslevel, parsing error",
           "Suma oslevel command failed",
           "Suma oslevel command returned an unexpected OS level",
           "Cannot build minimum level filter", "Suma metadata command failed",
           "Cannot determine SP version", "OS level does not match any fixes"}

\* C12: whenever compute_rq_name returns, the name has the format of the
\* request type: YYYY-TT for TL, YYYY-TT-SS-BBBB for SP, empty for Latest.
C12_NameFormat ==
    (suma_params.action \in {"download", "preview"} /\ RqNameReturned) =>
        NameFormat(suma_params.RqType, suma_params.RqName)

\* C12 for the types TL and SP, when oslevel does not end with a newline.
C12_NameFormatWithoutNewline ==
    (/\ suma_params.RqType \in {"TL", "SP"}
     /\ suma_params.oslevel[Len(suma_params.oslevel)] # NL) => C12_NameFormat

\* For the type Latest the name returned is the SP version found in the
\* metadata, never the empty string.
C12_LatestNameIsSP ==
    (/\ suma_params.action \in {"download", "preview"}
     /\ RqNameReturned
     /\ suma_params.RqType = "Latest") => IsShape(PatSPBuild, suma_params.RqName)

\* The call of compute_rq_name has taken the metadata path and has ended:
\* the suma Metadata command, which is run right after the directory is
\* ensured, was invoked, and the scan of the files is over.
MetadataPathEnded == Invoked("suma Metadata") /\ pc # "scan"

\* C13: when a call of compute_rq_name that takes the metadata path ends,
\* with a version or with a fatal error, the metadata directory no longer
\* exists.
C13_MetadataDirRemoved == MetadataPathEnded => ~metadata_dir

\* C13, for the calls that return a version.
C13_RemovedOnReturn == (MetadataPathEnded /\ RqNameReturned) => ~metadata_dir

\* The SP versions the candidate metadata files yield, one per file that
\* holds an SP tag line.
Yielded ==
    {find_sp_version(Candidates[i]) : i \in 1..Len(Candidates)} \ {None}

\* The step that scans the metadata files ends the resolver as the claim
\* says: fatal through fail_json exactly when no candidate file yields a
\* version, and with one of the versions yielded otherwise.
ScanEndsAsClaimed ==
    /\ (/\ pc' = "failed"
        /\ results'.msg = "Cannot determine SP version"
        /\ cmds' = cmds) <=> (Yielded = {})
    /\ Yielded # {} =>
          /\ pc' \in {"preview_cmd", "failed"}
          /\ suma_params'.RqName \in Yielded

\* C14: after a successful metadata fetch the resolver ends in a fatal
\* error through fail_json if and only if no candidate file yields an SP
\* version; a candidate file without SP tag line does not prevent the
\* version of another file from being selected, in any order of the
\* files, in the single-file case and in the glob case.
C14_FatalIffNoVersion == [][pc = "scan" => ScanEndsAsClaimed]_vars

\* C14, for the scans that no uncaught exception ends.
C14_UnlessException ==
    [][(pc = "scan" /\ pc' # "crashed") => ScanEndsAsClaimed]_vars

MsgParsingError == "Bad parameter: oslevel, parsing error"

\* C15: when the Validate step of suma_download does not end fatally,
\* compute_rq_type does not return ERROR on the normalized oslevel: the
\* request type is Latest, TL or SP and the 'parsing error' fatal end is
\* not taken.
C15_NoParsingError ==
    (pc # "main" /\ results.msg \notin {MsgBadZero, MsgBadFormat}) =>
        /\ results.msg # MsgParsingError
        /\ suma_params.RqType \in {"Latest", "TL", "SP"}

\* A value the Validate step lets through (a short SP followed by a
\* newline) is classified as an SP, to be looked up in the metadata.
C15_Witness ==
    /\ pc = "metadata_cmd"
    /\ suma_params.oslevel = Y7200 \o Dash \o G03 \o Dash \o G03 \o <<NL>>
    /\ suma_params.RqType = "SP"
    /\ results.msg = ""

\* The place of a command in the order of a download or preview run.
Rank(cmd) ==
    CASE cmd = "oslevel -s" -> 1
      [] cmd = "suma Metadata" -> 2
      [] cmd = "suma Preview" -> 3
      [] cmd = "suma Download" -> 4
      [] cmd = "install_all_updates" -> 5
      [] OTHER -> 0

\* C16: in a run of action download or preview the commands are invoked
\* in the order oslevel -s, suma Metadata, suma Preview, suma Download,
\* install_all_updates, each at most once and each only after every
\* earlier command exited 0; oslevel -s only when the normalized oslevel
\* is Latest, and suma Preview only once the resolver has returned a
\* non-empty request name.
C16_CommandOrder ==
    suma_params.action \in {"download", "preview"} =>
        /\ \A i \in 1..Len(cmds) : Rank(cmds[i].cmd) > 0
        /\ \A i, j \in 1..Len(cmds) :
              i < j => /\ Rank(cmds[i].cmd) < Rank(cmds[j].cmd)
                       /\ cmds[i].rc = 0
        /\ (Invoked("oslevel -s") \/ pc = "oslevel_cmd") => suma_params.oslevel = StrLatest
        /\ (Invoked("suma Preview") \/ pc = "preview_cmd") => Strip(suma_params.RqName) # <<>>

C16_Witness ==
    /\ pc = "done"
    /\ suma_params.action = "download"
    /\ suma_params.oslevel = StrLatest
    /\ Len(cmds) = 5
    /\ \A i \in 1..5 : cmds[i].rc = 0 /\ Rank(cmds[i].cmd) = i
    /\ suma_params.RqName = SP2222

====
